---- MODULE Spec2Model ----
(***************************************************************************)
(* Shares-outstanding outlier adjustment                                   *)
(* (outlier_adjusted_data/shares_outstanding_outlier_adjusted.py).         *)
(*                                                                         *)
(* A series is a sequence of values; a missing value (np.nan) is NaN.      *)
(* Positions are 1-based here and 0-based in the source, so the source's   *)
(* position p is p + 1 here and processed_until starts at 0, not -1.       *)
(* Thresholds are in hundredths (1.00 -> 100, 0.35 -> 35).  A quotient of  *)
(* the source is kept as the pair [n, d] of its numerator and denominator  *)
(* and compared exactly: n/0 with n > 0 is +inf and 0/0 is NaN, as in      *)
(* IEEE arithmetic.                                                        *)
(***************************************************************************)
EXTENDS Integers, Sequences, FiniteSets

VARIABLES
    index,            \* the labels of the series' index, one per position
    series,           \* the argument of correct_shares_outstanding_outliers
    corrected,        \* the local `corrected` / the detector's `series`
    outlier_mask,     \* the mask being built or just returned
    spike_starts,     \* labels the for loop of the detector has yet to visit
    processed_until,  \* the detector's processed boundary
    threshold,        \* threshold of the running detector call
    max_lookahead,    \* max_lookahead of the running detector call
    pass,             \* 1..4: the pass of the pipeline that is running
    pc,               \* "detect", "loop", "fill", "done", "raised"
    error,            \* the exception that left the call, "none" if none
    run,              \* 1: first call, 2: the call on the first call's output
    regions           \* history: the regions <<start, reversion>> that the
                      \* running detector call has marked, in order

vars == <<index, series, corrected, outlier_mask, spike_starts, processed_until,
          threshold, max_lookahead, pass, pc, error, run, regions>>

\* ----------------------------------------------------------------- bounds
MaxLen == 6
MaxDetectLen == 5
MaxFillLen == 5
MaxIdxLen == 3
MaxLabel == 3

\* -------------------------------------------------------------- constants
NaN == -1
MAX_LOOKAHEAD_DAYS == 600
ROLLING_WINDOW_DAYS == 63
ROLLING_DEVIATION_THRESHOLD == 40
MIN_PERIODS == 5
EXTREME_THRESHOLD == 100
MEDIUM_THRESHOLD == 50
SMALL_THRESHOLD == 35

\* ---------------------------------------------------------------- helpers
Abs(x) == IF x < 0 THEN -x ELSE x
Min(a, b) == IF a < b THEN a ELSE b
Max(a, b) == IF a < b THEN b ELSE a
isna(x) == x = NaN

\* a quotient n / d of floats, and the NaN quotient
Ratio(n, d) == [n |-> n, d |-> d]
NaNRatio == Ratio(0, 0)
\* q > t/100 and q <= t/100; both are false of NaN
RatioGt(q, t) == IF q.d = 0 THEN q.n # 0 ELSE q.n * 100 > t * q.d
RatioLe(q, t) == IF q.d = 0 THEN FALSE ELSE q.n * 100 <= t * q.d

AllFalse(n) == [i \in 1..n |-> FALSE]

\* ----------------------------------------------- calculate_pct_change
\* (series - previous).abs() / previous.abs(), previous = series.shift(1)
calculate_pct_change(s) ==
    [i \in 1..Len(s) |->
        IF i = 1 \/ isna(s[i]) \/ isna(s[i - 1]) THEN NaNRatio
        ELSE Ratio(Abs(s[i] - s[i - 1]), Abs(s[i - 1]))]

\* ------------------------------------------- find_spike_start_indices
RECURSIVE LabelsFrom(_, _, _, _)
LabelsFrom(idx, pct, t, i) ==
    IF i > Len(pct) THEN <<>>
    ELSE (IF RatioGt(pct[i], t) THEN <<idx[i]>> ELSE <<>>)
         \o LabelsFrom(idx, pct, t, i + 1)

\* pct_change[pct_change > threshold].index: the labels, in position order
find_spike_start_indices(idx, pct, t) == LabelsFrom(idx, pct, t, 1)

\* ------------------------------------------------------ Index.get_loc
\* the positions that carry the label: one position for a unique label; a
\* slice or a boolean array, never an int, for a repeated one
get_loc(idx, label) == {i \in 1..Len(idx) : idx[i] = label}
IsScalarLoc(loc) == Cardinality(loc) = 1
PosOf(loc) == CHOOSE i \in loc : TRUE

\* ----------------------------------------------- find_reversion_index
None == 0

\* the window taken one position too long
RevertedPositionsLong(s, spike_start_position, pre_spike_value, t, la) ==
    {i \in spike_start_position .. Min(spike_start_position + la, Len(s)) :
        /\ ~isna(s[i])
        /\ RatioLe(Ratio(Abs(s[i] - pre_spike_value), Abs(pre_spike_value)), t)}

\* the positions of the searched window where `reverted` is True
RevertedPositions(s, spike_start_position, pre_spike_value, t, la) ==
    {i \in spike_start_position .. Min(spike_start_position + la - 1, Len(s)) :
        /\ ~isna(s[i])
        /\ RatioLe(Ratio(Abs(s[i] - pre_spike_value), Abs(pre_spike_value)), t)}

MinOf(S) == CHOOSE x \in S : \A y \in S : x <= y

\* the position of the reversion point (reverted.idxmax() is its label), or
\* None
find_reversion_index(s, spike_start_position, pre_spike_value, t, la) ==
    IF isna(pre_spike_value) \/ pre_spike_value = 0 THEN None
    ELSE LET rev == RevertedPositions(s, spike_start_position, pre_spike_value, t, la)
         IN IF rev # {} THEN MinOf(rev) ELSE None

\* -------------------------------------------------- mark_spike_region
\* outlier_mask.iloc[start_pos:end_pos] = True
mark_spike_region(mask, start_pos, end_pos) ==
    [i \in 1..Len(mask) |-> IF start_pos <= i /\ i < end_pos THEN TRUE ELSE mask[i]]

\* ------------------------------------- detect_rolling_median_outliers
\* the present values of the centered window of position i
WindowPositions(s, i) ==
    {j \in Max(1, i - (ROLLING_WINDOW_DAYS - 1) \div 2) ..
           Min(Len(s), i + (ROLLING_WINDOW_DAYS - 1) \div 2) : ~isna(s[j])}

\* the k-th smallest of the values at the positions P, repetitions counted
KthSmallest(s, P, k) ==
    CHOOSE x \in {s[j] : j \in P} :
        /\ Cardinality({j \in P : s[j] < x}) < k
        /\ Cardinality({j \in P : s[j] <= x}) >= k

\* twice the rolling median at position i (twice, as the median of an even
\* count is the mean of the two middle values); NaN under min_periods
RollingMedian2(s, i) ==
    LET P == WindowPositions(s, i)
        c == Cardinality(P)
    IN IF c < MIN_PERIODS THEN NaN
       ELSE IF c % 2 = 1 THEN 2 * KthSmallest(s, P, (c + 1) \div 2)
       ELSE KthSmallest(s, P, c \div 2) + KthSmallest(s, P, c \div 2 + 1)

\* (series - rolling_median).abs() / rolling_median.abs()
RollingDeviation(s, i) ==
    LET m2 == RollingMedian2(s, i)
    IN IF isna(s[i]) \/ isna(m2) THEN NaNRatio
       ELSE Ratio(Abs(2 * s[i] - m2), Abs(m2))

detect_rolling_median_outliers(s) ==
    [i \in 1..Len(s) |-> RatioGt(RollingDeviation(s, i), ROLLING_DEVIATION_THRESHOLD)]

\* -------------------------------------- apply_forward_fill_correction
\* corrected[~outlier_mask] = np.nan
NulledInverted(s, mask) == [i \in 1..Len(s) |-> IF mask[i] THEN s[i] ELSE NaN]

\* corrected[outlier_mask] = np.nan
Nulled(s, mask) == [i \in 1..Len(s) |-> IF mask[i] THEN NaN ELSE s[i]]

\* ffill(limit=1): a missing value takes the value right before it
ffillOne(s) ==
    [i \in 1..Len(s) |-> IF isna(s[i]) /\ i > 1 THEN s[i - 1] ELSE s[i]]

\* Series.bfill(): every missing value takes the next present value after it
bfill(s) ==
    [i \in 1..Len(s) |->
        LET P == {j \in i..Len(s) : ~isna(s[j])}
        IN IF P = {} THEN NaN ELSE s[CHOOSE j \in P : \A k \in P : j <= k]]

\* Series.ffill(): every missing value takes the last present value before it
ffill(s) ==
    [i \in 1..Len(s) |->
        LET P == {j \in 1..i : ~isna(s[j])}
        IN IF P = {} THEN NaN ELSE s[CHOOSE j \in P : \A k \in P : k <= j]]

apply_forward_fill_correction(s, mask) == ffill(Nulled(s, mask))

\* ------------------------------------------------------------ pipeline
\* the third pass run at 0.40
PassThresholdSlip(p) ==
    CASE p = 1 -> EXTREME_THRESHOLD
      [] p = 2 -> MEDIUM_THRESHOLD
      [] p = 3 -> ROLLING_DEVIATION_THRESHOLD

\* the threshold each pass is called with
PassThreshold(p) ==
    CASE p = 1 -> EXTREME_THRESHOLD
      [] p = 2 -> MEDIUM_THRESHOLD
      [] p = 3 -> SMALL_THRESHOLD


\* --------------------------------------------------------------- inputs
Values == {NaN, 0, 100, 140, 250}
DetectValues == {NaN, 0, 50, 100, 140, 250}
FillValues == {NaN, 0, 100, 250}
Thresholds == {EXTREME_THRESHOLD, MEDIUM_THRESHOLD, SMALL_THRESHOLD}
Lookaheads == {1, 2, MAX_LOOKAHEAD_DAYS}
IdxValues == {NaN, 100, 250}

SeriesOf(V, n) == UNION {[1..k -> V] : k \in 0..n}
Masks(n) == [1..n -> BOOLEAN]
\* the index of a well-formed series: unique, strictly increasing labels
RangeIndex(n) == [i \in 1..n |-> i]

IsUnique(idx) == \A i, j \in 1..Len(idx) : idx[i] = idx[j] => i = j
IsStrictlyIncreasing(idx) == \A i, j \in 1..Len(idx) : i < j => idx[i] < idx[j]

\* ----------------------------------------------------------- the calls
\* correct_shares_outstanding_outliers: the call of a reversion pass
\* (threshold=1.00 / 0.50 / 0.35, max_lookahead defaulted)
CallDetector ==
    /\ pc = "detect"
    /\ pass \in 1..3
    /\ threshold' = PassThreshold(pass)
    /\ max_lookahead' = MAX_LOOKAHEAD_DAYS
    /\ pc' = "entry"
    /\ UNCHANGED <<index, series, corrected, outlier_mask, spike_starts,
                   processed_until, pass, error, run, regions>>

\* detect_reverting_spikes up to its loop: the all-False mask, the
\* percentage changes, the spike starts and the processed boundary
EnterDetector ==
    /\ pc = "entry"
    /\ outlier_mask' = AllFalse(Len(corrected))
    /\ spike_starts' =
           find_spike_start_indices(index, calculate_pct_change(corrected), threshold)
    /\ processed_until' = 0
    /\ regions' = <<>>
    /\ pc' = "loop"
    /\ UNCHANGED <<index, series, corrected, threshold, max_lookahead, pass,
                   error, run>>

\* `spike_pos <= processed_until`: the candidate lies in a resolved region
IsProcessedLax(pos, boundary) == pos < boundary
IsProcessed(pos, boundary) == pos <= boundary

\* the loop variables of the iteration about to run
spike_label == Head(spike_starts)
spike_loc == get_loc(index, spike_label)
spike_pos == PosOf(spike_loc)
pre_spike_value == IF spike_pos > 1 THEN corrected[spike_pos - 1] ELSE NaN
reversion_pos ==
    find_reversion_index(corrected, spike_pos, pre_spike_value, threshold,
                         max_lookahead)
reversion_loc == get_loc(index, index[reversion_pos])

\* `if spike_pos <= processed_until: continue`
SkipProcessed ==
    /\ pc = "loop"
    /\ spike_starts # <<>>
    /\ IsScalarLoc(spike_loc)
    /\ IsProcessed(spike_pos, processed_until)
    /\ spike_starts' = Tail(spike_starts)
    /\ UNCHANGED <<index, series, corrected, outlier_mask, processed_until,
                   threshold, max_lookahead, pass, pc, error, run, regions>>

\* find_reversion_index returned None: nothing is marked
NoReversion ==
    /\ pc = "loop"
    /\ spike_starts # <<>>
    /\ IsScalarLoc(spike_loc)
    /\ ~IsProcessed(spike_pos, processed_until)
    /\ reversion_pos = None
    /\ spike_starts' = Tail(spike_starts)
    /\ UNCHANGED <<index, series, corrected, outlier_mask, processed_until,
                   threshold, max_lookahead, pass, pc, error, run, regions>>

\* a reversion was found: mark_spike_region and move the processed boundary
MarkRegion ==
    /\ pc = "loop"
    /\ spike_starts # <<>>
    /\ IsScalarLoc(spike_loc)
    /\ ~IsProcessed(spike_pos, processed_until)
    /\ reversion_pos # None
    /\ IsScalarLoc(reversion_loc)
    /\ outlier_mask' = mark_spike_region(outlier_mask, spike_pos, PosOf(reversion_loc))
    /\ processed_until' = PosOf(reversion_loc)
    /\ regions' = Append(regions, <<spike_pos, PosOf(reversion_loc)>>)
    /\ spike_starts' = Tail(spike_starts)
    /\ UNCHANGED <<index, series, corrected, threshold, max_lookahead, pass, pc,
                   error, run>>

\* get_loc of a repeated label is a slice (monotonic index) or a boolean
\* array, not an int: `spike_pos <= processed_until` and
\* `outlier_mask.iloc[start_pos:end_pos]` then raise
RaiseOnLabel ==
    /\ pc = "loop"
    /\ spike_starts # <<>>
    /\ \/ ~IsScalarLoc(spike_loc)
       \/ /\ IsScalarLoc(spike_loc)
          /\ ~IsProcessed(spike_pos, processed_until)
          /\ reversion_pos # None
          /\ ~IsScalarLoc(reversion_loc)
    /\ pc' = "raised"
    /\ error' \in {"TypeError", "ValueError"}
    /\ UNCHANGED <<index, series, corrected, outlier_mask, spike_starts,
                   processed_until, threshold, max_lookahead, pass, run, regions>>

\* `return outlier_mask`
ReturnMask ==
    /\ pc = "loop"
    /\ spike_starts = <<>>
    /\ pc' = "fill"
    /\ UNCHANGED <<index, series, corrected, outlier_mask, spike_starts,
                   processed_until, threshold, max_lookahead, pass, error, run, regions>>

\* pass 4: outliers = detect_rolling_median_outliers(corrected)
RollingPass ==
    /\ pc = "detect"
    /\ pass = 4
    /\ outlier_mask' = detect_rolling_median_outliers(corrected)
    /\ pc' = "fill"
    /\ UNCHANGED <<index, series, corrected, spike_starts, processed_until,
                   threshold, max_lookahead, pass, error, run, regions>>

\* corrected = apply_forward_fill_correction(corrected, outliers), then the
\* next pass, or `return corrected` after the fourth
ApplyFill ==
    /\ pc = "fill"
    /\ corrected' = apply_forward_fill_correction(corrected, outlier_mask)
    /\ IF pass < 4
       THEN pass' = pass + 1 /\ pc' = "detect"
       ELSE pass' = pass /\ pc' = "done"
    /\ UNCHANGED <<index, series, outlier_mask, spike_starts, processed_until,
                   threshold, max_lookahead, error, run, regions>>

\* the caller runs the pipeline again on the series it returned: a new call,
\* whose locals start as those of the first
Resubmit ==
    /\ pc = "done"
    /\ run = 1
    /\ series' = corrected
    /\ outlier_mask' = AllFalse(Len(corrected))
    /\ spike_starts' = <<>>
    /\ processed_until' = 0
    /\ regions' = <<>>
    /\ pass' = 1
    /\ pc' = "detect"
    /\ run' = 2
    /\ UNCHANGED <<index, corrected, threshold, max_lookahead, error>>

\* ------------------------------------------------------ specifications
\* the pipeline on a well-formed series
Init ==
    /\ series \in SeriesOf(Values, MaxLen)
    /\ index = RangeIndex(Len(series))
    /\ corrected = series
    /\ outlier_mask = AllFalse(Len(series))
    /\ spike_starts = <<>>
    /\ processed_until = 0
    /\ threshold = EXTREME_THRESHOLD
    /\ max_lookahead = MAX_LOOKAHEAD_DAYS
    /\ pass = 1
    /\ pc = "detect"
    /\ error = "none"
    /\ run = 1
    /\ regions = <<>>

Next ==
    \/ CallDetector
    \/ EnterDetector
    \/ SkipProcessed
    \/ NoReversion
    \/ MarkRegion
    \/ ReturnMask
    \/ RollingPass
    \/ ApplyFill
    \/ Resubmit

Spec == Init /\ [][Next]_vars

\* one call of detect_reverting_spikes, any threshold and lookahead
InitDetect ==
    /\ series \in SeriesOf(DetectValues, MaxDetectLen)
    /\ index = RangeIndex(Len(series))
    /\ corrected = series
    /\ outlier_mask = AllFalse(Len(series))
    /\ spike_starts = <<>>
    /\ processed_until = 0
    /\ threshold \in Thresholds
    /\ max_lookahead \in Lookaheads
    /\ pass = 1
    /\ pc = "entry"
    /\ error = "none"
    /\ run = 1
    /\ regions = <<>>

NextDetect ==
    \/ EnterDetector
    \/ SkipProcessed
    \/ NoReversion
    \/ MarkRegion
    \/ ReturnMask

SpecDetect == InitDetect /\ [][NextDetect]_vars

\* one call of apply_forward_fill_correction, any series and mask
InitFill ==
    /\ series \in SeriesOf(FillValues, MaxFillLen)
    /\ index = RangeIndex(Len(series))
    /\ corrected = series
    /\ outlier_mask \in Masks(Len(series))
    /\ spike_starts = <<>>
    /\ processed_until = 0
    /\ threshold = ROLLING_DEVIATION_THRESHOLD
    /\ max_lookahead = MAX_LOOKAHEAD_DAYS
    /\ pass = 4
    /\ pc = "fill"
    /\ error = "none"
    /\ run = 1
    /\ regions = <<>>

NextFill == ApplyFill

SpecFill == InitFill /\ [][NextFill]_vars

\* the pipeline on a series with any index, repeated or unordered labels
\* included
InitIndex ==
    /\ series \in SeriesOf(IdxValues, MaxIdxLen)
    /\ index \in [1..Len(series) -> 1..MaxLabel]
    /\ corrected = series
    /\ outlier_mask = AllFalse(Len(series))
    /\ spike_starts = <<>>
    /\ processed_until = 0
    /\ threshold = EXTREME_THRESHOLD
    /\ max_lookahead = MAX_LOOKAHEAD_DAYS
    /\ pass = 1
    /\ pc = "detect"
    /\ error = "none"
    /\ run = 1
    /\ regions = <<>>

NextIndex ==
    \/ CallDetector
    \/ EnterDetector
    \/ SkipProcessed
    \/ NoReversion
    \/ MarkRegion
    \/ RaiseOnLabel
    \/ ReturnMask
    \/ RollingPass
    \/ ApplyFill

SpecIndex == InitIndex /\ [][NextIndex]_vars

\* -------------------------------------------------------------- claims
Positions(s) == 1..Len(s)
Returned == run = 1 /\ pc = "done"

\* the maximal runs of True of a mask: a run starts at p and ends before
\* RunEnd, the first unflagged position after p (Len + 1 if there is none)
IsRunStart(mask, p) == mask[p] /\ (p = 1 \/ ~mask[p - 1])
RunEnd(mask, p) ==
    MinOf({r \in p + 1 .. Len(mask) + 1 : r = Len(mask) + 1 \/ ~mask[r]})

\* C1: the pipeline is idempotent: the second call, made on the series the
\* first call returned, returns its argument position by position.
C1_Idempotent == (run = 2 /\ pc = "done") => corrected = series

\* a series that holds a non-zero level, then steps by more than the largest
\* pass threshold to a second level and stays there, for two positions or more
IsPermanentShift(s) ==
    \E k \in 2..Len(s) - 1 :
        /\ ~isna(s[1]) /\ s[1] # 0
        /\ ~isna(s[k])
        /\ Abs(s[k] - s[1]) * 100 > EXTREME_THRESHOLD * Abs(s[1])
        /\ \A i \in Positions(s) : s[i] = IF i < k THEN s[1] ELSE s[k]

\* C2: a permanent shift is preserved by the whole pipeline: a series that
\* holds one level, then steps by more than the pass threshold to a new level
\* and never returns, is returned unchanged at every position.
C2_ShiftPreserved == (Returned /\ IsPermanentShift(series)) => corrected = series

\* C3: the corrector changes flagged positions only: an unflagged position
\* has the same value, missing included, after the call as before.
C3_OnlyFlaggedChange ==
    pc = "done" =>
        \A i \in Positions(series) : ~outlier_mask[i] => corrected[i] = series[i]

\* C4: the regions one detector call marks never overlap: a later region
\* starts strictly after the reversion position of every earlier one.
C4_NonOverlap ==
    \A a, b \in 1..Len(regions) :
        a < b => /\ regions[a][1] < regions[a][2]
                 /\ regions[a][2] < regions[b][1]

\* two regions, the second starting right after the first one's reversion
\* position, which is itself a spike start
C4_Witness ==
    /\ pc = "fill"
    /\ Len(regions) = 2
    /\ regions[2][1] = regions[1][2] + 1
    /\ RatioGt(calculate_pct_change(corrected)[regions[1][2]], threshold)

\* C5 as stated: every position of a flagged run [p, r), p > 1, comes out
\* as value[p - 1].
C5_FillFromPrevious ==
    pc = "done" =>
        \A p \in Positions(series) :
            (p > 1 /\ IsRunStart(outlier_mask, p)) =>
                \A i \in p .. RunEnd(outlier_mask, p) - 1 :
                    corrected[i] = series[p - 1]

\* the positions before p whose value is present and unflagged
ValidBefore(s, mask, p) == {j \in 1..p - 1 : ~mask[j] /\ ~isna(s[j])}

\* C5, amended: every position of a flagged run [p, r), p > 1, comes out as
\* the last present unflagged value before the run, which is value[p - 1]
\* when that is present, and as missing when there is no such value.
C5_FillFromLastPresent ==
    pc = "done" =>
        \A p \in Positions(series) :
            (p > 1 /\ IsRunStart(outlier_mask, p)) =>
                \A i \in p .. RunEnd(outlier_mask, p) - 1 :
                    LET V == ValidBefore(series, outlier_mask, p)
                    IN /\ V = {} => isna(corrected[i])
                       /\ V # {} => \E j \in V :
                                       /\ \A k \in V : k <= j
                                       /\ corrected[i] = series[j]
                       /\ ~isna(series[p - 1]) => corrected[i] = series[p - 1]

\* a run of two flagged positions after a missing value that has a present
\* value before it
C5_Witness ==
    /\ pc = "done"
    /\ Len(series) = 5
    /\ outlier_mask = <<FALSE, FALSE, TRUE, TRUE, FALSE>>
    /\ ~isna(series[1]) /\ isna(series[2]) /\ ~isna(series[3])
    /\ corrected[3] = series[1] /\ corrected[4] = series[1]

\* C6 as stated: the rolling-median detector flags no position whose rolling
\* median is undefined or zero or whose deviation ratio is undefined.
C6_NoFlagWithoutMedian ==
    (pc = "fill" /\ pass = 4) =>
        \A i \in Positions(corrected) :
            (\/ isna(RollingMedian2(corrected, i))
             \/ RollingMedian2(corrected, i) = 0
             \/ RollingDeviation(corrected, i) = NaNRatio) => ~outlier_mask[i]

Malformed(idx) == ~IsUnique(idx) \/ ~IsStrictlyIncreasing(idx)

\* C7 as stated: a series whose index repeats a label or is not strictly
\* increasing is rejected; the pipeline returns no corrected series for it.
C7_MalformedRejected == Malformed(index) => pc # "done"

Degenerate(s) == Len(s) <= 1 \/ \A i \in Positions(s) : isna(s[i])

\* C8: an empty series, a series of length 1 and an all-missing series pass
\* through: every mask the detectors return for it is all False, every
\* output of the corrector and the returned series equal the input, and no
\* exception leaves the call.
C8_DegeneratePassThrough ==
    Degenerate(series) =>
        /\ outlier_mask = AllFalse(Len(series))
        /\ corrected = series
        /\ pc # "raised" /\ error = "none"

\* a series of one present value has gone through the four passes
C8_Witness ==
    /\ Returned
    /\ Len(series) = 1
    /\ ~isna(series[1])
    /\ corrected = series

\* a series that is the non-zero value s[1] everywhere but at position k,
\* not the first nor the last, where it differs from it by more than 35%
IsolatedSpike(s, k) ==
    /\ 1 < k /\ k < Len(s)
    /\ \A i \in Positions(s) : ~isna(s[i])
    /\ s[1] # 0
    /\ \A i \in Positions(s) \ {k} : s[i] = s[1]
    /\ Abs(s[k] - s[1]) * 100 > 35 * Abs(s[1])

\* C9: an isolated reverting spike is removed by the three reversion passes:
\* the series is s[1] everywhere after pass 3; a spike of at most 50% is left
\* in place by passes 1 and 2 and is the one position pass 3 flags.
C9_SpikeRemoved ==
    \A k \in Positions(series) :
        IsolatedSpike(series, k) =>
            /\ (pass = 4 /\ pc = "detect") =>
                   corrected = [i \in Positions(series) |-> series[1]]
            /\ Abs(series[k] - series[1]) * 100 <= 50 * Abs(series[1]) =>
                   /\ pass <= 3 => corrected = series
                   /\ (pass = 3 /\ pc = "fill") =>
                          outlier_mask = [i \in Positions(series) |-> i = k]

\* a 40% spike has been removed by pass 3
C9_Witness ==
    /\ run = 1 /\ pass = 4 /\ pc = "detect"
    /\ \E k \in Positions(series) :
           /\ IsolatedSpike(series, k)
           /\ Abs(series[k] - series[1]) * 100 <= 50 * Abs(series[1])
           /\ corrected[k] = series[1]
           /\ corrected # series

\* value[i] is within the threshold of value[p - 1]
Reverts(s, p, i, t) ==
    ~isna(s[i]) /\ Abs(s[i] - s[p - 1]) * 100 <= t * Abs(s[p - 1])
WindowEnd(s, p, la) == Min(p + la - 1, Len(s))
\* position p has a usable base and a reversion position in its window
HasReversion(s, p, t, la) ==
    /\ p > 1 /\ ~isna(s[p - 1]) /\ s[p - 1] # 0
    /\ \E r \in p .. WindowEnd(s, p, la) : Reverts(s, p, r, t)

C10_RunsAreRegions ==
    pc = "fill" =>
        \A p \in Positions(corrected) :
            IsRunStart(outlier_mask, p) =>
                LET r == RunEnd(outlier_mask, p)
                IN /\ p > 1 /\ ~isna(corrected[p - 1]) /\ corrected[p - 1] # 0
                   /\ ~isna(corrected[p])
                   /\ Abs(corrected[p] - corrected[p - 1]) * 100
                          > threshold * Abs(corrected[p - 1])
                   /\ r <= WindowEnd(corrected, p, max_lookahead)
                   /\ Reverts(corrected, p, r, threshold)
                   /\ \A i \in p .. r - 1 : ~Reverts(corrected, p, i, threshold)
                   /\ ~outlier_mask[r]

C10_NoRegionNoAdvance ==
    (/\ pc = "loop"
     /\ spike_starts # <<>>
     /\ ~HasReversion(corrected, Head(spike_starts), threshold, max_lookahead))
    => /\ outlier_mask' = outlier_mask
       /\ processed_until' = processed_until
       /\ regions' = regions

\* C10: every maximal run of the returned mask is a region [p, r): the
\* change at p exceeds the threshold, value[p - 1] is present and non-zero,
\* r is the first position of p .. min(p + max_lookahead, length) - 1 within
\* the threshold of value[p - 1], and r is unflagged; and the iteration of a
\* candidate with no such r changes neither the mask nor the boundary.
C10_RegionsExact == [] C10_RunsAreRegions /\ [][C10_NoRegionNoAdvance]_vars

\* a call with max_lookahead = 2 has returned: one candidate reverts only at
\* p + max_lookahead and is unflagged, and a later one has its region marked
C10_Witness ==
    /\ pc = "fill"
    /\ max_lookahead = 2
    /\ \E p \in 2 .. Len(corrected) - 2 :
           /\ RatioGt(calculate_pct_change(corrected)[p], threshold)
           /\ ~isna(corrected[p - 1]) /\ corrected[p - 1] # 0
           /\ ~HasReversion(corrected, p, threshold, max_lookahead)
           /\ Reverts(corrected, p, p + max_lookahead, threshold)
           /\ ~outlier_mask[p]
           /\ Len(regions) = 1
           /\ p < regions[1][1]

\* C11: no value is invented: at every point of the pipeline, so after each
\* of the four passes and in the returned series, the series has the length
\* of the input, and every present value at position i is the input's value
\* at some position j <= i.
C11_NoValueInvented ==
    /\ Len(corrected) = Len(series)
    /\ Len(outlier_mask) = Len(series)
    /\ \A i \in Positions(corrected) :
           ~isna(corrected[i]) =>
               \E j \in 1..i : corrected[i] = series[j]

\* the pipeline has returned a series in which an earlier observation was
\* copied forward over a different present value and another value was
\* turned into missing
C11_Witness ==
    /\ Returned
    /\ \E i \in Positions(series) :
           /\ ~isna(series[i]) /\ ~isna(corrected[i])
           /\ corrected[i] # series[i]
    /\ \E i \in Positions(series) : ~isna(series[i]) /\ isna(corrected[i])

====
